---- MODULE Spec2Model ----
(***************************************************************************)
(* The Gaussian-process regression engine gpr::GaussianProcess<float> and  *)
(* the kernel registry gpr::KernelFactory<float> as a state machine.       *)
(*                                                                         *)
(* Scalars are floats.  A scalar s of the model stands for the float       *)
(* s * 2^-23, so Ulp is 1.0f and Ulp + 1 is the float that follows 1.0f.   *)
(* Matrices produced by the numeric library (inverse, product) are kept    *)
(* as terms over their arguments; the kernel's value is a term over the    *)
(* kernel and its two arguments.                                           *)
(***************************************************************************)
EXTENDS Integers, Sequences, FiniteSets, TLC

\* ------------------------------------------------------------------ bounds

\* the largest number of samples AddSample is driven to
MaxSamples == 2
\* the largest number of calls made on the engine and the registry in one run
MaxCalls == 6
\* the values of (*this)(x, x) run from -MaxVariance to MaxVariance, in
\* units of 2^-23
MaxVariance == 30
\* the largest number of samples a parallel Gram-matrix construction runs on
GramSize == 3
\* the largest number of worker threads of a parallel region
MaxThreads == 2

\* -------------------------------------------------------- scalars and text

\* 2^23: the float s * 2^-23 is exact for every s in 0 .. 2^24
Ulp == 8388608
\* a decimal text d * 10^-6 is held as the number d
Micro == 1000000

One == Ulp
OnePlusUlp == Ulp + 1

\* operator<< of a float under setprecision(digits10 + 1), that is 7
\* significant digits: for the values 0 and [1, 10) these are 6 decimals,
\* rounded to nearest
FormatScalar(s) ==
    (s \div Ulp) * Micro + (((s % Ulp) * Micro + (Ulp \div 2)) \div Ulp)

\* operator>> of a float: the float nearest to the decimal text
ParseScalar(d) ==
    (d \div Micro) * Ulp + (((d % Micro) * Ulp + (Micro \div 2)) \div Micro)

\* operator<< of an unsigned or of a bool (boolalpha is off)
FormatUnsigned(n) == n * Micro
FormatBool(b) == IF b THEN Micro ELSE 0

\* operator>> of an unsigned: the digits before the decimal point
ParseUnsigned(d) == d \div Micro

\* operator>> of a bool accepts the texts 0 and 1 only
BoolTextOk(d) == d \in {0, Micro}
ParseBool(d) == d = Micro

\* a float that an arithmetic result can be: a number of the grid, or a NaN
Num(v) == [nan |-> FALSE, v |-> v]
NaN == [nan |-> TRUE, v |-> 0]

\* operator< of two floats: false when either is a NaN
Less(a, b) == ~a.nan /\ ~b.nan /\ a.v < b.v

\* std::max returning its second argument whatever the first is
StdMaxSecond(a, b) == b

\* std::max(a, b) is (a < b) ? b : a
StdMax(a, b) == IF Less(a, b) THEN b ELSE a

\* the largest r in lo .. hi - 1 with r * r <= n, for lo * lo <= n < hi * hi
RECURSIVE RootBetween(_, _, _)
RootBetween(n, lo, hi) ==
    IF hi - lo <= 1 THEN lo
    ELSE LET mid == (lo + hi) \div 2
         IN IF mid * mid <= n THEN RootBetween(n, mid, hi) ELSE RootBetween(n, lo, mid)

\* std::sqrt: a NaN for a NaN and for a negative number, else the root
\* rounded to the nearest number of the grid; the root of s * 2^-23 is
\* sqrt(s * 2^23) * 2^-23
StdSqrt(a) ==
    IF a.nan \/ a.v < 0 THEN NaN
    ELSE LET n == a.v * Ulp
             r == RootBetween(n, 0, 32768)
         IN Num(IF n - r * r > r THEN r + 1 ELSE r)

\* 2 * a
Twice(a) == IF a.nan THEN NaN ELSE Num(2 * a.v)

\* ------------------------------------------------------------------ kernels

Hash == "#"

AtomicTags == {"GaussianKernel", "PeriodicKernel"}
CompositeTags == {"SumKernel", "ProductKernel"}

\* a kernel handle: the variant, its own parameters, its child handles
AtomicKernel(type, params) == [type |-> type, params |-> params, kids |-> <<>>]
CompositeKernel(type, k1, k2) == [type |-> type, params |-> <<>>, kids |-> <<k1, k2>>]
\* the empty shared_ptr
NullKernel == [type |-> "null", params |-> <<>>, kids |-> <<>>]

Gaussian == AtomicKernel("GaussianKernel", <<One>>)
Periodic == AtomicKernel("PeriodicKernel", <<One>>)

\* Kernel::ToString: the tag as a sequence of words and '#' separators
KernelToString(k) ==
    IF k.kids = <<>> THEN <<k.type>>
    ELSE <<k.type, Hash, k.kids[1].type, Hash, k.kids[2].type>>

\* Kernel::GetParameters: a composite lists its children's parameters
KernelGetParameters(k) ==
    IF k.kids = <<>> THEN k.params
    ELSE k.kids[1].params \o k.kids[2].params

\* Kernel::operator(): a symmetric function of its two arguments
KernelValue(k, x, y) == [kern |-> k, args |-> {x, y}, plus |-> 0]

\* Kernel::operator!=
KernelEqual(a, b) == a = b

\* TKernel::Load(parameters), reached through Create<TKernel>: a handle of
\* the variant, built from the parameters alone
KernelStaticLoad(tag, parameters) ==
    IF tag \in AtomicTags THEN AtomicKernel(tag, parameters)
    ELSE [type |-> tag, params |-> parameters, kids |-> <<>>]

\* std::dynamic_pointer_cast<TKernel>: null unless the handle is a TKernel
DynamicPointerCast(type, k) == IF k.type = type THEN k ELSE NullKernel

\* ---------------------------------------------------------------- registry

\* a std::string is a sequence of words and '#' separators; no word
\* contains another word
Str(word) == <<word>>

\* KernelFactory::AddType: map::insert keeps an entry that is already there.
\* The entry of a name is Create<TKernel> of the kernel class of that name.
AddType(map, componentName) == map \cup {Str(componentName)}

\* KernelFactory::RegisterKernels
RegisterKernelsMap(map) ==
    AddType(AddType(AddType(AddType(map, "GaussianKernel"), "PeriodicKernel"),
                    "SumKernel"), "ProductKernel")

\* KernelFactory::Load: m_Map->find and a call through it->second.  With the
\* name absent find returns end(), and the call through it is undefined:
\* the process dies, or an indeterminate (here: empty) handle comes back.
FactoryLoad(map, kernel_string, parameters) ==
    IF kernel_string \in map
    THEN {[crash |-> FALSE, kernel |-> KernelStaticLoad(kernel_string[1], parameters)]}
    ELSE {[crash |-> TRUE, kernel |-> NullKernel],
          [crash |-> FALSE, kernel |-> NullKernel]}

\* ---------------------------------------------------------------- matrices

\* a default-constructed Eigen matrix
EmptyMatrix == [kind |-> "empty", nrows |-> 0, ncols |-> 0]

\* the selected inversion strategy
InvMethod == "FullPivotLU"

\* GaussianProcess::ComputeKernelMatrix: iteration i writes (i,j) and (j,i)
\* for every j >= i
ComputeKernelMatrix(g) ==
    LET n == Len(g.m_SampleVectors)
        s == g.m_SampleVectors
    IN [kind |-> "gram", nrows |-> n, ncols |-> n,
        cell |-> [i \in 1..n |-> [j \in 1..n |->
                    IF i <= j THEN KernelValue(g.m_Kernel, s[i], s[j])
                              ELSE KernelValue(g.m_Kernel, s[j], s[i])]]]

\* K(i,i) += m_Sigma
AddNoise(K, sigma) ==
    [K EXCEPT !.cell = [i \in 1..K.nrows |-> [j \in 1..K.ncols |->
        IF i = j THEN [K.cell[i][j] EXCEPT !.plus = @ + sigma] ELSE K.cell[i][j]]]]

\* K.inverse() and the three pseudo-inverses, as a term
Inverse(K, method) ==
    [kind |-> "inverse", nrows |-> K.nrows, ncols |-> K.ncols, method |-> method, of |-> K]

\* GaussianProcess::ComputeLabelMatrix: row i is label i
ComputeLabelMatrix(g) ==
    [kind |-> "rows", nrows |-> Len(g.m_LabelVectors),
     ncols |-> Len(g.m_LabelVectors[1]), rows |-> g.m_LabelVectors]

\* m_CoreMatrix * Y, as a term
Product(C, Y) ==
    [kind |-> "product", nrows |-> C.nrows, ncols |-> Y.ncols, left |-> C, right |-> Y]

\* the matrix Save builds from a vector list: column i is vector i.  A
\* vector shorter than the block is padded, a longer one cut.
FitColumn(v, d) == [r \in 1..d |-> IF r <= Len(v) THEN v[r] ELSE 0]
ColumnMatrix(vs) ==
    [kind |-> "cols", nrows |-> Len(vs[1]), ncols |-> Len(vs),
     cols |-> [i \in 1..Len(vs) |-> FitColumn(vs[i], Len(vs[1]))]]

\* X.col(i) for every column i of a matrix read from a vector file
Columns(X) == X.cols

SameSizes(vs) == \A i \in 1..Len(vs) : Len(vs[i]) = Len(vs[1])

\* ------------------------------------------------------------------ engine

\* the error kinds of the thrown messages
NoError == "none"
DimensionMismatch == "DimensionMismatch"
UntrainedState == "UntrainedState"
FileNotFound == "FileNotFound"
CorruptParameterFile == "CorruptParameterFile"
UnknownKernelType == "UnknownKernelType"
TokenizeFailure == "TokenizeFailure"
\* the process has died (undefined behaviour, or a failed Eigen assertion)
Crash == "Crash"

\* GaussianProcess::GaussianProcess(kernel)
Construct(kernel) ==
    [m_Kernel |-> kernel,
     m_Sigma |-> 0,
     m_SampleVectors |-> <<>>,
     m_LabelVectors |-> <<>>,
     m_RegressionVectors |-> EmptyMatrix,
     m_CoreMatrix |-> EmptyMatrix,
     m_Initialized |-> FALSE,
     m_InputDimension |-> 0,
     m_OutputDimension |-> 0,
     debug |-> FALSE]

\* what a call leaves behind: the engine, the error kind it raised, and
\* whether it ran ComputeRegressionVectors
Outcome(g, err, retrained) == [gp |-> g, err |-> err, retrained |-> retrained]

\* CheckInputDimension / CheckOutputDimension: TRUE when they do not throw
CheckInputDimension(g, x) == Len(x) = g.m_InputDimension
CheckOutputDimension(g, y) == Len(y) = g.m_OutputDimension

\* FixDimensions without the first-call tests: every call sets the dimensions
FixDimensionsEveryCall(g, x, y) ==
    [g EXCEPT !.m_InputDimension = Len(x), !.m_OutputDimension = Len(y)]

\* the two first-call assignments of AddSample
FixDimensions(g, x, y) ==
    LET g1 == IF Len(g.m_SampleVectors) = 0
              THEN [g EXCEPT !.m_InputDimension = Len(x)] ELSE g
    IN IF Len(g1.m_LabelVectors) = 0
       THEN [g1 EXCEPT !.m_OutputDimension = Len(y)] ELSE g1

\* GaussianProcess::AddSample
AddSample(g, x, y) ==
    LET g2 == FixDimensions(g, x, y)
    IN IF ~CheckInputDimension(g2, x) THEN Outcome(g2, DimensionMismatch, FALSE)
       ELSE IF ~CheckOutputDimension(g2, y) THEN Outcome(g2, DimensionMismatch, FALSE)
       ELSE Outcome([g2 EXCEPT !.m_SampleVectors = Append(@, x),
                               !.m_LabelVectors = Append(@, y),
                               !.m_Initialized = FALSE], NoError, FALSE)

\* SetSigma without the invalidation
SetSigmaKeepingFlag(g, sigma) == [g EXCEPT !.m_Sigma = sigma]

\* GaussianProcess::SetSigma
SetSigma(g, sigma) == [g EXCEPT !.m_Sigma = sigma, !.m_Initialized = FALSE]

\* GaussianProcess::DebugOn
DebugOn(g) == [g EXCEPT !.debug = TRUE]

\* GaussianProcess::ComputeRegressionVectors: the matrices it assigns
TrainedCore(g) == Inverse(AddNoise(ComputeKernelMatrix(g), g.m_Sigma), InvMethod)
TrainedRegression(g) == Product(TrainedCore(g), ComputeLabelMatrix(g))

\* ComputeRegressionVectors calls the kernel: an empty handle ends the process
KernelCallable(g) == g.m_Kernel # NullKernel

\* m_CoreMatrix * Y and the row blocks of Y are defined when the sizes agree;
\* otherwise an Eigen assertion ends the process, or (NDEBUG) the product is
\* formed from whatever the operands hold
SizesAgree(g) ==
    /\ Len(g.m_SampleVectors) = Len(g.m_LabelVectors)
    /\ SameSizes(g.m_LabelVectors)

ComputeRegressionVectors(g) ==
    [g EXCEPT !.m_CoreMatrix = TrainedCore(g),
              !.m_RegressionVectors = TrainedRegression(g)]

Trained(g) == [ComputeRegressionVectors(g) EXCEPT !.m_Initialized = TRUE]

\* Initialize without the early return of a trained engine
InitializeAlways(g) ==
    IF ~(Len(g.m_SampleVectors) > 0) THEN {Outcome(g, UntrainedState, FALSE)}
    ELSE IF ~(Len(g.m_LabelVectors) > 0) THEN {Outcome(g, UntrainedState, FALSE)}
    ELSE IF ~KernelCallable(g) THEN {Outcome(g, Crash, TRUE)}
    ELSE {Outcome(Trained(g), NoError, TRUE)}

\* Initialize without the two emptiness tests
InitializeUnguarded(g) ==
    IF g.m_Initialized THEN {Outcome(g, NoError, FALSE)}
    ELSE IF Len(g.m_SampleVectors) = 0 \/ Len(g.m_LabelVectors) = 0
         THEN {Outcome([g EXCEPT !.m_Initialized = TRUE], NoError, TRUE)}
    ELSE InitializeAlways(g)

\* GaussianProcess::Initialize: the set of its possible outcomes
Initialize(g) ==
    IF g.m_Initialized THEN {Outcome(g, NoError, FALSE)}
    ELSE IF ~(Len(g.m_SampleVectors) > 0) THEN {Outcome(g, UntrainedState, FALSE)}
    ELSE IF ~(Len(g.m_LabelVectors) > 0) THEN {Outcome(g, UntrainedState, FALSE)}
    ELSE IF ~KernelCallable(g) THEN {Outcome(g, Crash, TRUE)}
    ELSE IF ~SizesAgree(g)
         THEN {Outcome(g, Crash, TRUE), Outcome(Trained(g), NoError, TRUE)}
    ELSE {Outcome(Trained(g), NoError, TRUE)}

\* GaussianProcess::ComputeKernelVector reads m_SampleVectors[i] for every row
\* i of m_RegressionVectors: a read past the end when there are more rows
\* than samples
KernelVectorInRange(g) == g.m_RegressionVectors.nrows <= Len(g.m_SampleVectors)

\* what follows Initialize in a query: the dimension checks of the
\* arguments xs, then the kernel vectors
AfterInitialize(r, xs) ==
    IF r.err # NoError THEN {r}
    ELSE IF \E i \in 1..Len(xs) : ~CheckInputDimension(r.gp, xs[i])
         THEN {Outcome(r.gp, DimensionMismatch, r.retrained)}
    ELSE IF ~r.gp.m_Initialized THEN {Outcome(r.gp, UntrainedState, r.retrained)}
    ELSE IF ~KernelCallable(r.gp) THEN {Outcome(r.gp, Crash, r.retrained)}
    ELSE IF ~KernelVectorInRange(r.gp) THEN {Outcome(r.gp, Crash, r.retrained), r}
    ELSE {r}

Query(g, xs) == UNION {AfterInitialize(r, xs) : r \in Initialize(g)}

\* GaussianProcess::Predict
Predict(g, x) == Query(g, <<x>>)

\* GaussianProcess::PredictDerivative
PredictDerivative(g, x) == Query(g, <<x>>)

\* GaussianProcess::operator()
Covariance(g, x, y) == Query(g, <<x, y>>)

\* GaussianProcess::GetCredibleInterval: Initialize, the check of x, then
\* (*this)(x, x)
GetCredibleInterval(g, x) ==
    UNION {IF r.err # NoError \/ ~CheckInputDimension(r.gp, x)
           THEN {IF r.err # NoError THEN r
                 ELSE Outcome(r.gp, DimensionMismatch, r.retrained)}
           ELSE {Outcome(c.gp, c.err, r.retrained \/ c.retrained) :
                    c \in Covariance(r.gp, x, x)}
           : r \in Initialize(g)}

\* GetCredibleInterval from the value c of (*this)(x, x) on:
\* c = 2 * std::sqrt(std::max(static_cast<TScalarType>(0.0), c))
CredibleInterval(c) == Twice(StdSqrt(StdMax(Num(0), c)))

\* -------------------------------------------------------------- persistence

\* a file of the prefix: absent, or present with its content
NoFile == [exists |-> FALSE]
File(data) == [exists |-> TRUE, data |-> data]

\* the five companion files of the prefix
EmptyDisk == [rv |-> NoFile, cm |-> NoFile, sv |-> NoFile, lv |-> NoFile, pf |-> NoFile]

\* the line Save writes to <prefix>-ParameterFile.txt, field by field
ParameterLine(g) ==
    LET kernel_parameters == KernelGetParameters(g.m_Kernel)
    IN <<KernelToString(g.m_Kernel), FormatUnsigned(Len(kernel_parameters))>>
       \o [i \in 1..Len(kernel_parameters) |-> FormatScalar(kernel_parameters[i])]
       \o <<FormatScalar(g.m_Sigma), FormatUnsigned(g.m_InputDimension),
            FormatUnsigned(g.m_OutputDimension), FormatBool(g.debug)>>

SaveOutcome(d, err) == [disk |-> d, err |-> err]

\* Save from the opening of the parameter file on: the open truncates the
\* file, then the kernel is called
SaveParameters(g, d) ==
    IF ~KernelCallable(g) THEN {SaveOutcome([d EXCEPT !.pf = File(<<>>)], Crash)}
    ELSE {SaveOutcome([d EXCEPT !.pf = File(<<ParameterLine(g)>>)], NoError)}

\* Save from the label matrix on: m_LabelVectors[0] must exist, and a block
\* of Y takes a vector of another size only with NDEBUG
SaveLabels(g, d) ==
    IF Len(g.m_LabelVectors) = 0 THEN {SaveOutcome(d, Crash)}
    ELSE (IF SameSizes(g.m_LabelVectors) THEN {} ELSE {SaveOutcome(d, Crash)})
         \cup SaveParameters(g, [d EXCEPT !.lv = File(ColumnMatrix(g.m_LabelVectors))])

\* Save from the sample matrix on
SaveSamples(g, d) ==
    IF Len(g.m_SampleVectors) = 0 THEN {SaveOutcome(d, Crash)}
    ELSE (IF SameSizes(g.m_SampleVectors) THEN {} ELSE {SaveOutcome(d, Crash)})
         \cup SaveLabels(g, [d EXCEPT !.sv = File(ColumnMatrix(g.m_SampleVectors))])

\* Save without the test of the trained flag
SaveUnchecked(g, d) ==
    SaveSamples(g, [d EXCEPT !.rv = File(g.m_RegressionVectors),
                             !.cm = File(g.m_CoreMatrix)])

\* GaussianProcess::Save: the set of its possible outcomes
Save(g, d) ==
    IF ~g.m_Initialized THEN {SaveOutcome(d, UntrainedState)}
    ELSE SaveSamples(g, [d EXCEPT !.rv = File(g.m_RegressionVectors),
                                  !.cm = File(g.m_CoreMatrix)])

\* the fields of the first line of the parameter file, as Load reads them:
\* the kernel name, the parameter count, that many parameters, then sigma,
\* the two dimensions and the debug flag.  A failed extraction leaves the
\* stream failed, so every later one fails and assigns nothing.
ParseParameterFile(g, lines) ==
    IF Len(lines) = 0
    THEN [gp |-> g, kernel_type |-> <<>>, kernel_parameters |-> <<>>, corrupt |-> FALSE]
    ELSE
    LET line == lines[1]
        n == Len(line)
        kernel_type == IF n >= 1 THEN line[1] ELSE <<>>
        num == IF n >= 2 THEN ParseUnsigned(line[2]) ELSE 0
        got == IF n - 2 < num THEN (IF n > 2 THEN n - 2 ELSE 0) ELSE num
        load == n >= 2 /\ got = num
        pos == 2 + num
        g1 == IF load /\ n >= pos + 1
              THEN [g EXCEPT !.m_Sigma = ParseScalar(line[pos + 1])] ELSE g
        g2 == IF load /\ n >= pos + 2
              THEN [g1 EXCEPT !.m_InputDimension = ParseUnsigned(line[pos + 2])] ELSE g1
        g3 == IF load /\ n >= pos + 3
              THEN [g2 EXCEPT !.m_OutputDimension = ParseUnsigned(line[pos + 3])] ELSE g2
        g4 == IF load /\ n >= pos + 4
              THEN [g3 EXCEPT !.debug = IF BoolTextOk(line[pos + 4])
                                        THEN ParseBool(line[pos + 4]) ELSE TRUE]
              ELSE g3
    IN [gp |-> g4, kernel_type |-> kernel_type,
        kernel_parameters |-> [p \in 1..got |-> ParseScalar(line[2 + p])],
        corrupt |-> ~(load /\ n >= pos + 4 /\ BoolTextOk(line[pos + 4]))]

\* the pieces of a string between its '#' separators
RECURSIVE SplitHash(_)
SplitHash(s) ==
    IF \E i \in 1..Len(s) : s[i] = Hash
    THEN LET h == CHOOSE i \in 1..Len(s) :
                     s[i] = Hash /\ \A j \in 1..(i - 1) : s[j] # Hash
         IN <<SubSeq(s, 1, h - 1)>> \o SplitHash(SubSeq(s, h + 1, Len(s)))
    ELSE <<s>>

\* the k-th std::getline(ss, _, '#') succeeds: it fails at the end of the
\* string, that is past the last piece or on an empty last piece
GetlineOk(parts, k) == k <= Len(parts) /\ ~(k = Len(parts) /\ parts[k] = <<>>)

\* kernel_type.find("SumKernel") != npos
FindSumKernel(kernel_type) == \E i \in 1..Len(kernel_type) : kernel_type[i] = "SumKernel"

\* m_Kernel = dynamic_pointer_cast<TKernel>(KernelFactory::Load(name, ...)),
\* then m_Initialized = true
LoadFromFactory(g, map, type, name, parameters) ==
    {IF f.crash THEN Outcome(g, Crash, FALSE)
     ELSE Outcome([g EXCEPT !.m_Kernel = DynamicPointerCast(type, f.kernel),
                            !.m_Initialized = TRUE], NoError, FALSE)
     : f \in FactoryLoad(map, name, parameters)}

\* Load from the kernel dispatch on
LoadKernel(g, map, kernel_type, parameters) ==
    IF kernel_type = Str("GaussianKernel")
    THEN LoadFromFactory(g, map, "GaussianKernel", kernel_type, parameters)
    ELSE IF kernel_type = Str("PeriodicKernel")
    THEN LoadFromFactory(g, map, "PeriodicKernel", kernel_type, parameters)
    ELSE IF FindSumKernel(kernel_type)
    THEN LET parts == SplitHash(kernel_type)
         IN IF ~GetlineOk(parts, 1) /\ parts[1] # Str("SumKernel")
            THEN {Outcome(g, TokenizeFailure, FALSE)}
            ELSE IF ~GetlineOk(parts, 2) THEN {Outcome(g, TokenizeFailure, FALSE)}
            ELSE IF ~GetlineOk(parts, 3) THEN {Outcome(g, TokenizeFailure, FALSE)}
            ELSE LoadFromFactory(g, map, "SumKernel", parts[1], parameters)
    ELSE {Outcome(g, UnknownKernelType, FALSE)}

\* Load from the parameter file on
LoadParameters(g, map, files) ==
    IF ~files.pf.exists THEN {Outcome(g, FileNotFound, FALSE)}
    ELSE LET p == ParseParameterFile(g, files.pf.data)
         IN IF p.corrupt THEN {Outcome(p.gp, CorruptParameterFile, FALSE)}
            ELSE LoadKernel(p.gp, map, p.kernel_type, p.kernel_parameters)

\* Load from the label vectors on
LoadLabels(g, map, files) ==
    IF ~files.lv.exists THEN {Outcome(g, FileNotFound, FALSE)}
    ELSE LoadParameters([g EXCEPT !.m_LabelVectors = Columns(files.lv.data)], map, files)

\* Load from the sample vectors on
LoadSamples(g, map, files) ==
    IF ~files.sv.exists THEN {Outcome(g, FileNotFound, FALSE)}
    ELSE LoadLabels([g EXCEPT !.m_SampleVectors = Columns(files.sv.data)], map, files)

\* Load from the core matrix on
LoadCoreMatrix(g, map, files) ==
    IF ~files.cm.exists THEN {Outcome(g, FileNotFound, FALSE)}
    ELSE LoadSamples([g EXCEPT !.m_CoreMatrix = files.cm.data], map, files)

\* GaussianProcess::Load: the set of its possible outcomes
Load(g, map, files) ==
    IF ~files.rv.exists THEN {Outcome(g, FileNotFound, FALSE)}
    ELSE LoadCoreMatrix([g EXCEPT !.m_RegressionVectors = files.rv.data], map, files)

\* GaussianProcess::GetNumberOfSamples
GetNumberOfSamples(g) == Len(g.m_SampleVectors)

\* GaussianProcess::operator==
EngineEqual(a, b) ==
    /\ a.m_RegressionVectors = b.m_RegressionVectors
    /\ a.m_CoreMatrix = b.m_CoreMatrix
    /\ a.m_SampleVectors = b.m_SampleVectors
    /\ a.m_LabelVectors = b.m_LabelVectors
    /\ KernelEqual(a.m_Kernel, b.m_Kernel)
    /\ a.m_Sigma = b.m_Sigma
    /\ a.m_Initialized = b.m_Initialized
    /\ a.m_InputDimension = b.m_InputDimension
    /\ a.m_OutputDimension = b.m_OutputDimension
    /\ a.debug = b.debug

\* ------------------------------------------------------------ state machine

VARIABLES
    gp,      \* the GaussianProcess object
    m_Map,   \* KernelFactory::m_Map: the registered names
    disk,    \* the five files of the prefix
    last,    \* history: the last call, its error kind and what it ran
    hist,    \* history: the successful AddSample calls since construction
    saved,   \* history: the engine as the last Save wrote it
    calls,   \* history: the number of calls made so far
    omp      \* the parallel region of ComputeKernelMatrix, while one is open

vars == <<gp, m_Map, disk, last, hist, saved, calls, omp>>

\* no parallel region is open
NoRegion == [open |-> FALSE]

\* the kernels an engine is constructed with
Kernels ==
    {Gaussian,
     CompositeKernel("SumKernel", Gaussian, Periodic),
     CompositeKernel("ProductKernel", Gaussian, Periodic)}

\* the arguments the calls are driven with
InputVectors == {<<One>>, <<One, 0>>}
LabelVectors == {<<One>>, <<One, 0>>}
SigmaValues == {0, OnePlusUlp}

\* a kernel name a parameter file can declare besides the one Save wrote
OtherTags == {Str("UnknownKernel")}

\* the names KernelFactory::Load is called with directly
FactoryNames == {Str("GaussianKernel"), Str("SumKernel"), Str("UnknownKernel")}

Call(op, err, retrained) ==
    [op |-> op, err |-> err, retrained |-> retrained,
     tag |-> <<>>, pristine |-> FALSE, fresh |-> FALSE, absent |-> FALSE,
     found |-> EmptyDisk, c |-> Num(0), value |-> Num(0)]

NoAdds == [valid |-> FALSE, adds |-> 0, first_in |-> 0, first_out |-> 0]
NoSave == [valid |-> FALSE, gp |-> Construct(NullKernel)]

Init ==
    /\ gp \in {Construct(k) : k \in Kernels}
    /\ m_Map \in {{}, RegisterKernelsMap({})}
    /\ disk = EmptyDisk
    /\ last = Call("Construct", NoError, FALSE)
    /\ hist = [NoAdds EXCEPT !.valid = TRUE]
    /\ saved = NoSave
    /\ calls = 0
    /\ omp = NoRegion

\* a call is made in a process that has not died; between calls no
\* parallel region is open
Alive ==
    /\ last.err # Crash
    /\ calls < MaxCalls
    /\ calls' = calls + 1
    /\ UNCHANGED omp

\* a call that touches neither the registry nor the files
EngineCall(op, r) ==
    /\ gp' = r.gp
    /\ last' = Call(op, r.err, r.retrained)
    /\ UNCHANGED <<m_Map, disk, hist, saved>>

ConstructStep ==
    /\ Alive
    /\ \E k \in Kernels : gp' = Construct(k)
    /\ last' = Call("Construct", NoError, FALSE)
    /\ hist' = [NoAdds EXCEPT !.valid = TRUE]
    /\ UNCHANGED <<m_Map, disk, saved>>

RegisterKernelsStep ==
    /\ Alive
    /\ m_Map' = RegisterKernelsMap(m_Map)
    /\ last' = Call("RegisterKernels", NoError, FALSE)
    /\ UNCHANGED <<gp, disk, hist, saved>>

KernelFactoryLoadStep ==
    /\ Alive
    /\ \E name \in FactoryNames : \E f \in FactoryLoad(m_Map, name, <<One>>) :
          last' = [Call("KernelFactory::Load", IF f.crash THEN Crash ELSE NoError, FALSE)
                      EXCEPT !.tag = name, !.absent = name \notin m_Map]
    /\ UNCHANGED <<gp, m_Map, disk, hist, saved>>

AddSampleStep ==
    /\ Alive
    /\ \E x \in InputVectors, y \in LabelVectors :
          LET r == AddSample(gp, x, y)
          IN /\ r.err = NoError => Len(gp.m_SampleVectors) < MaxSamples
             /\ gp' = r.gp
             /\ last' = Call("AddSample", r.err, FALSE)
             /\ hist' = IF r.err # NoError THEN hist
                        ELSE IF hist.adds = 0
                             THEN [hist EXCEPT !.adds = 1, !.first_in = Len(x),
                                               !.first_out = Len(y)]
                        ELSE [hist EXCEPT !.adds = @ + 1]
    /\ UNCHANGED <<m_Map, disk, saved>>

SetSigmaStep ==
    /\ Alive
    /\ \E sigma \in SigmaValues : EngineCall("SetSigma", Outcome(SetSigma(gp, sigma), NoError, FALSE))

DebugOnStep ==
    /\ Alive
    /\ EngineCall("DebugOn", Outcome(DebugOn(gp), NoError, FALSE))

InitializeStep ==
    /\ Alive
    /\ \E r \in Initialize(gp) : EngineCall("Initialize", r)

PredictStep ==
    /\ Alive
    /\ \E x \in InputVectors : \E r \in Predict(gp, x) : EngineCall("Predict", r)

PredictDerivativeStep ==
    /\ Alive
    /\ \E x \in InputVectors : \E r \in PredictDerivative(gp, x) :
          EngineCall("PredictDerivative", r)

CovarianceStep ==
    /\ Alive
    /\ \E x \in InputVectors, y \in InputVectors : \E r \in Covariance(gp, x, y) :
          EngineCall("operator()", r)

GetCredibleIntervalStep ==
    /\ Alive
    /\ \E x \in InputVectors : \E r \in GetCredibleInterval(gp, x) :
          EngineCall("GetCredibleInterval", r)

SaveStep ==
    /\ Alive
    /\ \E r \in Save(gp, disk) :
          /\ disk' = r.disk
          /\ last' = Call("Save", r.err, FALSE)
          /\ saved' = IF r.err = NoError THEN [valid |-> TRUE, gp |-> gp]
                      ELSE IF r.disk = disk THEN saved ELSE NoSave
    /\ UNCHANGED <<gp, m_Map, hist>>

\* the first line of the parameter file with its kernel name replaced
WithTag(d, tag) == [d EXCEPT !.pf = File(<<[d.pf.data[1] EXCEPT ![1] = tag]>>)]
\* ... with its last field cut off
Truncated(d) ==
    [d EXCEPT !.pf = File(<<SubSeq(d.pf.data[1], 1, Len(d.pf.data[1]) - 1)>>)]
\* ... declaring one parameter more than it holds
Overcounted(d) == [d EXCEPT !.pf = File(<<[d.pf.data[1] EXCEPT ![2] = @ + Micro]>>)]

\* what Load can find under the prefix: the files as they were left, one of
\* them removed, or another parameter file
FilesFound(d) ==
    {d}
    \cup {[d EXCEPT ![f] = NoFile] : f \in {"rv", "cm", "sv", "lv", "pf"}}
    \cup (IF d.pf.exists /\ Len(d.pf.data) > 0
          THEN {WithTag(d, tag) : tag \in OtherTags}
               \cup {Truncated(d), Overcounted(d), [d EXCEPT !.pf = File(<<>>)]}
          ELSE {})

\* the kernel name Load dispatches on, or the empty string when Load ends
\* before the dispatch
DispatchedTag(g, files) ==
    IF files.rv.exists /\ files.cm.exists /\ files.sv.exists /\ files.lv.exists
       /\ files.pf.exists /\ ~ParseParameterFile(g, files.pf.data).corrupt
    THEN ParseParameterFile(g, files.pf.data).kernel_type
    ELSE <<>>

LoadStep ==
    /\ Alive
    /\ \E files \in FilesFound(disk) : \E r \in Load(gp, m_Map, files) :
          /\ gp' = r.gp
          /\ last' = [Call("Load", r.err, FALSE) EXCEPT
                         !.tag = DispatchedTag(gp, files),
                         !.found = files,
                         !.pristine = (files = disk /\ saved.valid),
                         !.fresh = (\E k \in Kernels : gp = Construct(k))]
          /\ hist' = NoAdds
    /\ UNCHANGED <<m_Map, disk, saved>>

Next ==
    \/ ConstructStep
    \/ RegisterKernelsStep
    \/ KernelFactoryLoadStep
    \/ AddSampleStep
    \/ SetSigmaStep
    \/ DebugOnStep
    \/ InitializeStep
    \/ PredictStep
    \/ PredictDerivativeStep
    \/ CovarianceStep
    \/ GetCredibleIntervalStep
    \/ SaveStep
    \/ LoadStep

Spec == Init /\ [][Next]_vars

\* ------------------------------------------------------------------ claims

Registered == m_Map = RegisterKernelsMap({})

\* the calls that run Initialize
TrainingOps ==
    {"Initialize", "Predict", "PredictDerivative", "operator()", "GetCredibleInterval"}

\* the core matrix and the regression coefficients are the ones a full
\* retrain derives from the current samples, labels, kernel and noise
Consistent(g) ==
    /\ Len(g.m_SampleVectors) > 0
    /\ Len(g.m_LabelVectors) > 0
    /\ KernelCallable(g)
    /\ SizesAgree(g)
    /\ g.m_CoreMatrix = TrainedCore(g)
    /\ g.m_RegressionVectors = TrainedRegression(g)

\* C1: in every reachable state the trained flag is true if and only if the
\* core matrix and the regression coefficients are the ones a full retrain
\* would derive from the current samples, labels, kernel and noise.  Stated
\* here in its "only if" half, for an engine with an atomic kernel and the
\* kernels registered: a trained engine holds the matrices of a retrain.
C1_TrainedImpliesConsistent ==
    (Registered /\ gp.m_Kernel.type \in AtomicTags /\ gp.m_Initialized)
        => Consistent(gp)

\* C2 as claimed: after a successful AddSample and after SetSigma the
\* trained flag is false, and on an engine that holds samples only a full
\* retrain, run by Initialize or by a query, sets it to true again.
C2_OnlyRetrainSetsFlag ==
    [][/\ (last'.op = "SetSigma" \/ (last'.op = "AddSample" /\ last'.err = NoError))
            => ~gp'.m_Initialized
       /\ (~gp.m_Initialized /\ Len(gp.m_SampleVectors) > 0 /\ gp'.m_Initialized)
            => (last'.op \in TrainingOps /\ last'.retrained)]_vars

\* C2 as amended: after a successful AddSample and after SetSigma the
\* trained flag is false, and it is set to true again only by a full retrain
\* (Initialize, called directly or by a query) or by a Load that returns
\* without an error.
C2_RetrainOrLoadSetsFlag ==
    [][/\ (last'.op = "SetSigma" \/ (last'.op = "AddSample" /\ last'.err = NoError))
            => ~gp'.m_Initialized
       /\ (~gp.m_Initialized /\ gp'.m_Initialized)
            => \/ (last'.op \in TrainingOps /\ last'.retrained)
               \/ (last'.op = "Load" /\ last'.err = NoError)]_vars

\* a Load into a freshly constructed engine has set the trained flag
C2_Witness ==
    /\ last.op = "Load" /\ last.fresh /\ last.err = NoError
    /\ gp.m_Initialized

\* C3: an AddSample call that raises DimensionMismatch leaves the whole
\* engine state as it was before the call.
C3_RejectionLeavesState ==
    [][(last'.op = "AddSample" /\ last'.err = DimensionMismatch) => gp' = gp]_vars

\* C4: from construction on, as long as no Load has run, the number of
\* samples equals the number of AddSample calls that succeeded, and the two
\* dimensions are the sizes of the first added input and label vector.
C4_CountAndDimensions ==
    hist.valid =>
        /\ GetNumberOfSamples(gp) = hist.adds
        /\ hist.adds > 0 => /\ gp.m_InputDimension = hist.first_in
                            /\ gp.m_OutputDimension = hist.first_out

\* a second AddSample has succeeded, and one has been rejected after it
C4_Witness ==
    /\ hist.valid /\ hist.adds >= 2
    /\ last.op = "AddSample" /\ last.err = DimensionMismatch

\* C5: on a trained engine Initialize and every query run no retrain and
\* leave the core matrix, the regression coefficients and the trained flag
\* unchanged.
C5_InitializeIdempotent ==
    [][(gp.m_Initialized /\ last'.op \in TrainingOps)
          => /\ ~last'.retrained
             /\ gp'.m_CoreMatrix = gp.m_CoreMatrix
             /\ gp'.m_RegressionVectors = gp.m_RegressionVectors
             /\ gp'.m_Initialized]_vars

\* Initialize has returned on a trained engine without a retrain
C5_Witness ==
    /\ last.op = "Initialize" /\ last.err = NoError /\ ~last.retrained
    /\ gp.m_Initialized

\* C6: Save followed by Load into a freshly constructed engine yields an
\* engine that operator== reports equal to the saved one.  Stated here for
\* an engine with an atomic kernel, the kernels being registered.
C6_RoundTrip ==
    (/\ last.op = "Load" /\ last.pristine /\ last.fresh
     /\ Registered /\ saved.gp.m_Kernel.type \in AtomicTags)
        => (last.err = NoError /\ EngineEqual(gp, saved.gp))

\* C7: a Load whose parameter file declares the kernel UnknownKernel fails
\* with UnknownKernelType and leaves the engine as it was before the call.
C7_UnknownTagLeavesState ==
    [][(last'.op = "Load" /\ last'.tag = Str("UnknownKernel"))
          => (last'.err = UnknownKernelType /\ gp' = gp)]_vars

\* C8: KernelFactory::Load called with a name that is not in the registry
\* fails with UnknownKernelType.
C8_AbsentNameFails ==
    (last.op = "KernelFactory::Load" /\ last.absent) => last.err = UnknownKernelType

\* a tag ProductKernel#<leftTag>#<rightTag>
IsProductTag(tag) ==
    /\ Len(SplitHash(tag)) = 3
    /\ SplitHash(tag)[1] = Str("ProductKernel")
    /\ SplitHash(tag)[2] # <<>> /\ SplitHash(tag)[3] # <<>>

\* C9: a Load that reads a tag ProductKernel#<leftTag>#<rightTag> does not
\* reject it: it returns without an error and holds a ProductKernel.
C9_ProductTagAccepted ==
    (last.op = "Load" /\ Registered /\ IsProductTag(last.tag))
        => (last.err = NoError /\ gp.m_Kernel.type = "ProductKernel")

\* a tag SumKernel#<leftTag>#<rightTag> with both sub-tags registered
WellFormedSumTag(tag, map) ==
    /\ Len(SplitHash(tag)) = 3
    /\ SplitHash(tag)[1] = Str("SumKernel")
    /\ SplitHash(tag)[2] \in map /\ SplitHash(tag)[3] \in map

\* C10: a Load that reads a tag containing SumKernel fails, instead of
\* succeeding, when the first token is not SumKernel, when the sub-tags are
\* not exactly two, or when a sub-tag is not registered.  Stated here for
\* the tags whose first token is a registered name.
C10_SumTagChecked ==
    (/\ last.op = "Load" /\ Registered /\ FindSumKernel(last.tag)
     /\ SplitHash(last.tag)[1] \in m_Map
     /\ ~WellFormedSumTag(last.tag, m_Map))
        => last.err # NoError

\* the first line of a parameter file holds the kernel name, the parameter
\* count, exactly that many parameters, sigma, the two dimensions and the
\* debug flag
ParsesAsParameterLine(lines) ==
    /\ Len(lines) >= 1
    /\ Len(lines[1]) >= 2
    /\ Len(lines[1]) = 2 + ParseUnsigned(lines[1][2]) + 4
    /\ BoolTextOk(lines[1][Len(lines[1])])

\* the four matrix and vector files are there, and so is the parameter file
ReachesParameterFile(found) ==
    /\ found.rv.exists /\ found.cm.exists /\ found.sv.exists /\ found.lv.exists
    /\ found.pf.exists

\* C11: a Load that finds a parameter file without a well-formed parameter
\* line (an empty file, a line cut short, a line with fewer parameters than
\* it declares) fails with CorruptParameterFile, never with another error
\* kind and never successfully.
C11_MalformedFileIsCorrupt ==
    (/\ last.op = "Load" /\ ReachesParameterFile(last.found)
     /\ ~ParsesAsParameterLine(last.found.pf.data))
        => last.err = CorruptParameterFile

\* C12: Save on an engine whose trained flag is false fails with
\* UntrainedState, and a Save that fails so leaves the five files and the
\* engine as they were.
C12_SaveNeedsTrained ==
    [][last'.op = "Save" =>
          /\ ~gp.m_Initialized => last'.err = UntrainedState
          /\ last'.err = UntrainedState => (disk' = disk /\ gp' = gp)]_vars

\* Save has failed on an engine that was trained and saved, then invalidated
C12_Witness ==
    /\ last.op = "Save" /\ last.err = UntrainedState
    /\ saved.valid /\ disk.pf.exists
    /\ ~gp.m_Initialized /\ Len(gp.m_SampleVectors) > 0

\* C13: on an untrained engine whose sample list or label list is empty,
\* Initialize and every query fail with UntrainedState, run no retrain and
\* leave the engine, its trained flag and its matrices as they were.
C13_EmptyStorageIsUntrained ==
    [][(/\ last'.op \in TrainingOps /\ ~gp.m_Initialized
        /\ (Len(gp.m_SampleVectors) = 0 \/ Len(gp.m_LabelVectors) = 0))
          => /\ last'.err = UntrainedState
             /\ ~last'.retrained
             /\ gp' = gp]_vars

\* a query has failed on an engine that holds samples but no labels
C13_Witness ==
    /\ last.op \in TrainingOps \ {"Initialize"} /\ last.err = UntrainedState
    /\ Len(gp.m_SampleVectors) > 0 /\ Len(gp.m_LabelVectors) = 0
    /\ ~gp.m_Initialized

\* C16: after a Load that returned without an error the kernel handle is
\* not empty and is a kernel of the variant the persisted tag names (its
\* first '#'-token); the trained flag is never set over an empty handle.
\* Stated here for the tags whose first token is a registered name.
C16_LoadedKernelMatchesTag ==
    (/\ last.op = "Load" /\ last.err = NoError /\ Registered
     /\ SplitHash(last.tag)[1] \in m_Map)
        => /\ gp.m_Kernel # NullKernel
           /\ Str(gp.m_Kernel.type) = SplitHash(last.tag)[1]

\* C17: in every reachable state the sample list and the label list have
\* the same length.
C17_SamplesPairLabels ==
    Len(gp.m_SampleVectors) = Len(gp.m_LabelVectors)

\* C14: GetCredibleInterval never returns a negative number, nor a NaN: for
\* a negative value c of (*this)(x, x), and for a NaN, it returns 0 and
\* raises no error, and for any other c it returns twice the root of c.
C14_IntervalNotNegative ==
    (last.op = "GetCredibleInterval" /\ last.err = NoError) =>
        /\ ~last.value.nan /\ last.value.v >= 0
        /\ (last.c.nan \/ last.c.v < 0) => last.value.v = 0
        /\ (~last.c.nan /\ last.c.v >= 0) =>
              LET h == last.value.v \div 2
                  n == last.c.v * Ulp
              IN /\ last.value.v = 2 * h
                 /\ h = 0 \/ h * h - h <= n - 1
                 /\ n <= h * h + h

\* GetCredibleInterval has returned 0 for the most negative value
C14_Witness ==
    /\ last.op = "GetCredibleInterval" /\ last.err = NoError
    /\ ~last.c.nan /\ last.c.v = -MaxVariance
    /\ last.value = Num(0)

\* -------------------------------------------- the kernel dispatch of Load

\* the longest kernel name, in words and separators, of a parameter file
MaxTagLen == 5

TagAtoms == {"SumKernel", "GaussianKernel", "ProductKernel", "UnknownKernel", Hash}

\* the kernel names a parameter file can declare
TagStrings == UNION {[1..n -> TagAtoms] : n \in 1..MaxTagLen}

\* the files a trained one-sample engine saves
ModelFiles ==
    LET g == Trained(AddSample(Construct(Gaussian), <<One>>, <<One>>).gp)
    IN (CHOOSE r \in Save(g, EmptyDisk) : r.err = NoError).disk

\* a freshly constructed engine beside saved files whose parameter file
\* declares any kernel name
InitLoad ==
    /\ gp = Construct(Gaussian)
    /\ m_Map \in {{}, RegisterKernelsMap({})}
    /\ disk \in {WithTag(ModelFiles, tag) : tag \in TagStrings}
    /\ last = Call("Construct", NoError, FALSE)
    /\ hist = [NoAdds EXCEPT !.valid = TRUE]
    /\ saved = NoSave
    /\ calls = 0
    /\ omp = NoRegion

\* Load of the files as they are
LoadAsFoundStep ==
    /\ Alive
    /\ \E r \in Load(gp, m_Map, disk) :
          /\ gp' = r.gp
          /\ last' = [Call("Load", r.err, FALSE) EXCEPT
                         !.tag = DispatchedTag(gp, disk),
                         !.found = disk,
                         !.fresh = (\E k \in Kernels : gp = Construct(k))]
          /\ hist' = NoAdds
    /\ UNCHANGED <<m_Map, disk, saved>>

NextLoad ==
    \/ RegisterKernelsStep
    \/ LoadAsFoundStep

SpecLoad == InitLoad /\ [][NextLoad]_vars

\* C15: in the parallel construction of the Gram matrix no two distinct
\* iterations of the outer loop ever write the same cell, whatever the
\* assignment of the iterations to the threads and the interleaving of the
\* threads; and when all iterations are done every cell (i,j) of the n x n
\* matrix has been written and holds kernel(sample_i, sample_j), the same
\* value as cell (j,i).
C15_DisjointWritesFullMatrix ==
    omp.open =>
        /\ \A i, j \in 1..omp.n : Cardinality(omp.writers[i][j]) <= 1
        /\ omp.done = 1..omp.n =>
              /\ \A i, j \in 1..omp.n :
                    /\ omp.writers[i][j] # {}
                    /\ omp.M[i][j] = omp.M[j][i]
                    /\ omp.M[i][j] = KernelValue(gp.m_Kernel, gp.m_SampleVectors[i],
                                                 gp.m_SampleVectors[j])
              /\ omp.M = ComputeKernelMatrix(gp).cell

\* a Gram matrix of the largest size is complete, and every thread has run
\* an iteration of it
C15_Witness ==
    /\ omp.open /\ omp.n = GramSize /\ omp.done = 1..omp.n
    /\ \A t \in 1..MaxThreads : \E i \in 1..omp.n : omp.owner[i] = t

\* ------------------------------------------- the credible interval's value

\* what (*this)(x, x) returns: the numeric library's result for
\* k(x, x) - Kx' * C * Kx, of either sign, or a NaN
CovarianceValues == {Num(v) : v \in -MaxVariance..MaxVariance} \cup {NaN}

\* a trained one-sample engine, with debug off or on
InitInterval ==
    /\ gp \in {[Trained(AddSample(Construct(Gaussian), <<One>>, <<One>>).gp)
                   EXCEPT !.debug = d] : d \in BOOLEAN}
    /\ m_Map = RegisterKernelsMap({})
    /\ disk = EmptyDisk
    /\ last = Call("Initialize", NoError, TRUE)
    /\ hist = [NoAdds EXCEPT !.valid = TRUE, !.adds = 1, !.first_in = 1, !.first_out = 1]
    /\ saved = NoSave
    /\ calls = 0
    /\ omp = NoRegion

\* GetCredibleInterval with the value it returns
GetCredibleIntervalValueStep ==
    /\ Alive
    /\ \E x \in InputVectors : \E r \in GetCredibleInterval(gp, x) :
          \E c \in CovarianceValues :
             /\ gp' = r.gp
             /\ last' = IF r.err # NoError THEN Call("GetCredibleInterval", r.err, r.retrained)
                        ELSE [Call("GetCredibleInterval", r.err, r.retrained)
                                 EXCEPT !.c = c, !.value = CredibleInterval(c)]
    /\ UNCHANGED <<m_Map, disk, hist, saved>>

NextInterval == GetCredibleIntervalValueStep

SpecInterval == InitInterval /\ [][NextInterval]_vars

\* ----------------------------------- the parallel loop of the Gram matrix

\* a cell of M after M.resize(n, n): not yet written
Unwritten == [kern |-> NullKernel, args |-> {}, plus |-> 0]

\* the inner loop of iteration i starts at column i
FirstColumnAll(i) == 1
FirstColumn(i) == i

\* an engine holding the n samples (0), (1), ..., (n - 1)
GramEngine(n) ==
    [Construct(Gaussian) EXCEPT
        !.m_SampleVectors = [i \in 1..n |-> <<(i - 1) * Ulp>>],
        !.m_LabelVectors = [i \in 1..n |-> <<One>>],
        !.m_InputDimension = 1,
        !.m_OutputDimension = 1]

\* a thread that is in no iteration
Idle == [i |-> 0, j |-> 0, phase |-> "idle", v |-> Unwritten]

\* the region as "#pragma omp parallel for" opens it: M resized to n x n,
\* every iteration of the outer loop given to one thread of the team
OpenRegion(n, owner) ==
    [open |-> TRUE, n |-> n, owner |-> owner,
     run |-> [t \in 1..MaxThreads |-> Idle],
     started |-> {}, done |-> {},
     M |-> [i \in 1..n |-> [j \in 1..n |-> Unwritten]],
     writers |-> [i \in 1..n |-> [j \in 1..n |-> {}]]]

\* Initialize has entered ComputeKernelMatrix on n samples
InitGram ==
    /\ \E n \in 1..GramSize :
          /\ gp = GramEngine(n)
          /\ hist = [NoAdds EXCEPT !.valid = TRUE, !.adds = n, !.first_in = 1,
                                   !.first_out = 1]
          /\ \E owner \in [1..n -> 1..MaxThreads] : omp = OpenRegion(n, owner)
    /\ m_Map = RegisterKernelsMap({})
    /\ disk = EmptyDisk
    /\ last = Call("AddSample", NoError, FALSE)
    /\ saved = NoSave
    /\ calls = 0

GramStep(region) ==
    /\ omp.open
    /\ omp' = region
    /\ UNCHANGED <<gp, m_Map, disk, last, hist, saved, calls>>

\* the iterations of thread t that it has not started
Pending(t) == {i \in 1..omp.n : omp.owner[i] = t /\ i \notin omp.started}

\* thread t takes its next iteration i and enters the inner loop at j = i
StartIterationStep ==
    \E t \in 1..MaxThreads :
        /\ omp.open /\ omp.run[t].phase = "idle" /\ Pending(t) # {}
        /\ LET i == CHOOSE i \in Pending(t) : \A k \in Pending(t) : i <= k
           IN GramStep([omp EXCEPT !.started = @ \cup {i},
                                   !.run[t] = [i |-> i, j |-> FirstColumn(i),
                                               phase |-> "kernel", v |-> Unwritten]])

\* v = (*m_Kernel)(m_SampleVectors[i], m_SampleVectors[j])
KernelCallStep ==
    \E t \in 1..MaxThreads :
        /\ omp.open /\ omp.run[t].phase = "kernel"
        /\ LET r == omp.run[t]
           IN GramStep([omp EXCEPT
                  !.run[t].v = KernelValue(gp.m_Kernel, gp.m_SampleVectors[r.i],
                                           gp.m_SampleVectors[r.j]),
                  !.run[t].phase = "upper"])

\* M(i,j) = v
WriteUpperStep ==
    \E t \in 1..MaxThreads :
        /\ omp.open /\ omp.run[t].phase = "upper"
        /\ LET r == omp.run[t]
           IN GramStep([omp EXCEPT !.M[r.i][r.j] = r.v,
                                   !.writers[r.i][r.j] = @ \cup {r.i},
                                   !.run[t].phase = "lower"])

\* M(j,i) = v, then j++ and the test j < n
WriteLowerStep ==
    \E t \in 1..MaxThreads :
        /\ omp.open /\ omp.run[t].phase = "lower"
        /\ LET r == omp.run[t]
           IN GramStep([omp EXCEPT
                  !.M[r.j][r.i] = r.v,
                  !.writers[r.j][r.i] = @ \cup {r.i},
                  !.run[t] = IF r.j < omp.n
                             THEN [r EXCEPT !.j = r.j + 1, !.phase = "kernel"]
                             ELSE Idle,
                  !.done = IF r.j < omp.n THEN @ ELSE @ \cup {r.i}])

NextGram ==
    \/ StartIterationStep
    \/ KernelCallStep
    \/ WriteUpperStep
    \/ WriteLowerStep

SpecGram == InitGram /\ [][NextGram]_vars

====
